---- MODULE Spec2Model ----
(***************************************************************************)
(* Model of scripts/process_data.py: the batch that folds scraped deck     *)
(* records into per-commander, per-pair and per-card statistics and then   *)
(* writes and validates the JSON artefacts.                                *)
(*                                                                         *)
(* Text is modelled as a sequence of one-character strings so that         *)
(* slugify, make_pair_id, classify_card and scryfall_image are computed    *)
(* character by character, as the code computes them.                      *)
(***************************************************************************)
EXTENDS Integers, Sequences, FiniteSets, TLC

\* ------------------------------------------------------------------ text

UpperChars == <<"A","B","C","D","E","F","G","H","I","J","K","L","M",
                "N","O","P","Q","R","S","T","U","V","W","X","Y","Z">>
LowerChars == <<"a","b","c","d","e","f","g","h","i","j","k","l","m",
                "n","o","p","q","r","s","t","u","v","w","x","y","z">>
DigitChars == <<"0","1","2","3","4","5","6","7","8","9">>

\* The characters of the model in code-point order (Python compares str by code point).
CodePointOrder == <<"\t", " ", "!", "'", ",", "-", "/">> \o DigitChars \o UpperChars \o LowerChars

Range(s) == { s[i] : i \in 1..Len(s) }

OrdTable == [c \in Range(CodePointOrder) |->
                CHOOSE i \in 1..Len(CodePointOrder) : CodePointOrder[i] = c]

\* ord(c), up to the order it induces
Ord(c) == OrdTable[c]

LowerTable == [c \in Range(CodePointOrder) |->
                  IF c \in Range(UpperChars)
                  THEN LowerChars[CHOOSE i \in 1..Len(UpperChars) : UpperChars[i] = c]
                  ELSE c]

\* str.lower() on one character
Lower(c) == LowerTable[c]

LowerStr(s) == [i \in 1..Len(s) |-> Lower(s[i])]

Whitespace == {" ", "\t"}

\* s[i:i+len(sub)] == sub
OccursAt(s, sub, i) ==
    /\ i + Len(sub) - 1 <= Len(s)
    /\ \A k \in 1..Len(sub) : s[i + k - 1] = sub[k]

\* sub in s
Contains(s, sub) == \E i \in 1..(Len(s) + 1) : OccursAt(s, sub, i)

\* s1 > s2 on Python str: lexicographic by code point, a proper prefix is smaller
RECURSIVE StrGreater(_, _)
StrGreater(s1, s2) ==
    IF s1 = <<>> THEN FALSE
    ELSE IF s2 = <<>> THEN TRUE
    ELSE IF Head(s1) = Head(s2) THEN StrGreater(Tail(s1), Tail(s2))
    ELSE Ord(Head(s1)) > Ord(Head(s2))

\* name.split(" // ")[0]
FaceSep == <<" ", "/", "/", " ">>

FrontFace(name) ==
    IF Contains(name, FaceSep)
    THEN LET first == CHOOSE i \in 1..Len(name) :
                        /\ OccursAt(name, FaceSep, i)
                        /\ \A j \in 1..(i - 1) : ~OccursAt(name, FaceSep, j)
         IN  SubSeq(name, 1, first - 1)
    ELSE name

\* re.sub(r"[^a-z0-9\s-]", "", s)
SlugChars == Range(LowerChars) \cup Range(DigitChars) \cup Whitespace \cup {"-"}

IsSlugChar(c) == c \in SlugChars

StripIllegal(s) == SelectSeq(s, IsSlugChar)

RECURSIVE DropWhitespace(_)
DropWhitespace(s) ==
    IF s # <<>> /\ Head(s) \in Whitespace THEN DropWhitespace(Tail(s)) ELSE s

\* re.sub(r"[\s]+", "-", s)
RECURSIVE CollapseWhitespace(_)
CollapseWhitespace(s) ==
    IF s = <<>> THEN <<>>
    ELSE IF Head(s) \in Whitespace
         THEN <<"-">> \o CollapseWhitespace(DropWhitespace(s))
         ELSE <<Head(s)>> \o CollapseWhitespace(Tail(s))

\* .strip("-")
RECURSIVE StripHyphens(_)
StripHyphens(s) ==
    IF s = <<>> THEN <<>>
    ELSE IF Head(s) = "-" THEN StripHyphens(Tail(s))
    ELSE IF s[Len(s)] = "-" THEN StripHyphens(SubSeq(s, 1, Len(s) - 1))
    ELSE s

\* The display names and mapping keys of the model.
Atraxa   == <<"A","t","r","a","x","a">>
Korvold  == <<"K","o","r","v","o","l","d">>
Thrasios == <<"T","h","r","a","s","i","o","s">>
Tymna    == <<"T","y","m","n","a">>
\* a second display name with Tymna's slug (a two-faced printing)
TymnaDfc == <<"T","y","m","n","a"," ","/","/"," ","X">>
SolRing  == <<"S","o","l"," ","R","i","n","g">>
Opt      == <<"O","p","t">>
\* a mapping key that is not the card's name
AltKey   == <<"k","e","y">>
Griselbrand == <<"G","r","i","s","e","l","b","r","a","n","d">>

Names == {Atraxa, Korvold, Thrasios, Tymna, TymnaDfc, SolRing, Opt, AltKey, Griselbrand}

\* slugify, step by step
Slug(name) == StripHyphens(CollapseWhitespace(StripIllegal(LowerStr(FrontFace(name)))))

\* Slug over the model's names, computed once
SlugTable == [n \in Names |-> Slug(n)]

slugify(name) == IF name \in Names THEN SlugTable[name] ELSE Slug(name)

\* make_pair_id without the swap of lines 70-71
make_pair_id_as_listed(name1, name2) == slugify(name1) \o <<"-", "-">> \o slugify(name2)

make_pair_id(name1, name2) ==
    LET s1 == slugify(name1)
        s2 == slugify(name2)
    IN  IF StrGreater(s1, s2) THEN s2 \o <<"-", "-">> \o s1
                              ELSE s1 \o <<"-", "-">> \o s2

\* The outcome of scryfall_image when scryfall_id[1] raises IndexError (a value no
\* URL equals, so that the caller can tell the call did not return).
IndexErrorRaised == <<"IndexError: string index out of range">>

UrlPrefix == <<"https://cards.scryfall.io/normal/front/">>

scryfall_image(scryfall_id) ==
    IF scryfall_id = <<>> THEN <<>>
    ELSE IF Len(scryfall_id) < 2 THEN IndexErrorRaised
    ELSE UrlPrefix \o <<scryfall_id[1], "/", scryfall_id[2], "/">> \o scryfall_id \o <<".jpg">>

classify_card(type_line) ==
    LET tl == LowerStr(type_line)
    IN  IF Contains(tl, <<"c","r","e","a","t","u","r","e">>) THEN "creatures"
        ELSE IF Contains(tl, <<"i","n","s","t","a","n","t">>) THEN "instants"
        ELSE IF Contains(tl, <<"s","o","r","c","e","r","y">>) THEN "sorceries"
        ELSE IF Contains(tl, <<"p","l","a","n","e","s","w","a","l","k","e","r">>) THEN "planeswalkers"
        ELSE IF Contains(tl, <<"a","r","t","i","f","a","c","t">>) THEN "artifacts"
        ELSE IF Contains(tl, <<"e","n","c","h","a","n","t","m","e","n","t">>) THEN "enchantments"
        ELSE IF Contains(tl, <<"l","a","n","d">>) THEN "lands"
        ELSE "other"

\* parse_dt: None for a missing (falsy) or unparseable text; otherwise the datetime,
\* timezone-aware only when the text carries an offset ("Z" or "+hh:mm").
NoneDt == [none |-> TRUE, aware |-> FALSE, day |-> 0]

parse_dt(s) ==
    IF s.kind = "missing" THEN NoneDt
    ELSE IF s.kind # "iso" THEN NoneDt
    ELSE [none |-> FALSE, aware |-> s.offset, day |-> s.day]

\* ------------------------------------------------------------------ dicts

Get(m, k, default) == IF k \in DOMAIN m THEN m[k] ELSE default

Put(m, k, v) == [x \in DOMAIN m \cup {k} |-> IF x = k THEN v ELSE m[x]]

EmptyDict == [x \in {} |-> 0]

\* for k in keys: m[k] += 1   (m a defaultdict(int))
Bump(m, keys) == [x \in DOMAIN m \cup keys |-> Get(m, x, 0) + (IF x \in keys THEN 1 ELSE 0)]

\* card.get("name", cname) for one entry of a commanders or mainboard mapping
CardName(entry) == IF entry.card.name = <<>> THEN entry.cname ELSE entry.card.name[1]

\* ------------------------------------------------------------------ inputs


ArtifactLine == <<"A","r","t","i","f","a","c","t">>
InstantLine  == <<"I","n","s","t","a","n","t">>
CreatureLine == <<"L","e","g","e","n","d","a","r","y"," ","C","r","e","a","t","u","r","e">>

\* A card record: name is <<>> when the record has no "name" key, else <<the name>>;
\* scryfall_id and type_line are "" when absent (the code reads both with that default).
Card(name, sid, type_line) == [name |-> name, scryfall_id |-> sid, type_line |-> type_line]

EmptyCard == Card(<<>>, <<>>, <<>>)

Entry(cname, card) == [cname |-> cname, card |-> card]

\* a commander entry keyed by its own name, with a well-formed record
Cmdr(n) == Entry(n, Card(<<n>>, <<"c","0">> \o SubSeq(n, 1, 2), CreatureLine))

SolRingEntry == Entry(SolRing, Card(<<SolRing>>, <<"a","b","1">>, ArtifactLine))
OptEntry     == Entry(Opt, Card(<<Opt>>, <<"e","f","2">>, InstantLine))

Created(kind, offset, day) == [kind |-> kind, offset |-> offset, day |-> day]

\* the run's clock, in days (datetime.now(timezone.utc))
NOW == 1000

D30  == NOW - 30
D90  == NOW - 90
D180 == NOW - 180

RecentZ == Created("iso", TRUE, NOW - 10)

\* A deck file: parses is FALSE for a file json.load rejects; has_commanders is FALSE
\* when the document has no "commanders" key; the mappings are in document order.
Deck(commanders, mainboard, created) ==
    [parses |-> TRUE, has_commanders |-> TRUE, commanders |-> commanders,
     mainboard |-> mainboard, createdAtUtc |-> created]

BrokenFile ==
    [parses |-> FALSE, has_commanders |-> FALSE, commanders |-> <<>>,
     mainboard |-> <<>>, createdAtUtc |-> Created("missing", FALSE, 0)]

NoCommandersKey ==
    [parses |-> TRUE, has_commanders |-> FALSE, commanders |-> <<>>,
     mainboard |-> <<SolRingEntry>>, createdAtUtc |-> RecentZ]

\* ------------------------------------------------------------------ state

VARIABLES
    deck_files,             \* the deck files the loop has taken so far, in order
    banlist_raw,            \* the loaded ban list
    pc,                     \* where main() is
    error,                  \* the exception that ended the run, "" if none
    total_decks,
    commander_decks,        \* name -> list of deck_info
    cmdr_order,             \* the keys of commander_decks in insertion order
    commander_card_info,    \* name -> card record
    commander_card_counts,  \* name -> (card name -> count)
    global_card_counts,     \* card name -> count
    card_order,             \* the keys of global_card_counts in insertion order
    all_card_info,          \* card name -> card record
    pair_decks,             \* pair key -> list of deck_info
    pair_names,             \* pair key -> <<n1, n2>>
    pair_order,             \* the keys of pair_names in insertion order
    pair_card_counts,       \* pair key -> (card name -> count)
    commander_partners,     \* name -> set of partner names
    card_commander_counts,  \* card name -> (commander id -> count)
    out,                    \* what the builders have produced so far
    written,                \* every file written, in order: [path, content]
    validated,              \* the paths re-parsed by the final validation
    corrupt                 \* the paths whose content on disk does not parse

aggregates == <<total_decks, commander_decks, cmdr_order, commander_card_info,
                commander_card_counts, global_card_counts, card_order, all_card_info,
                pair_decks, pair_names, pair_order, pair_card_counts, commander_partners,
                card_commander_counts>>

outputs == <<out, written, validated, corrupt>>

vars == <<deck_files, banlist_raw, pc, error, aggregates, outputs>>

\* ------------------------------------------------------------------ the deck loop

\* cmdr_names: one resolved name per entry of the commanders mapping, in order
CmdrNames(deck) == [i \in 1..Len(deck.commanders) |-> CardName(deck.commanders[i])]

\* deck_card_names: the set of resolved mainboard names
DeckCardNames(deck) == { CardName(e) : e \in Range(deck.mainboard) }

\* for each entry in order: info[resolved name] = card
RECURSIVE StoreCards(_, _)
StoreCards(info, entries) ==
    IF entries = <<>> THEN info
    ELSE StoreCards(Put(info, CardName(Head(entries)), Head(entries).card), Tail(entries))

\* for cmdr in cmdr_names: commander_decks[cmdr].append(deck_info)
RECURSIVE AppendDeck(_, _, _)
AppendDeck(decks, names, deck_info) ==
    IF names = <<>> THEN decks
    ELSE AppendDeck(Put(decks, Head(names), Append(Get(decks, Head(names), <<>>), deck_info)),
                    Tail(names), deck_info)

RECURSIVE InsertionOrder(_, _)
InsertionOrder(order, names) ==
    IF names = <<>> THEN order
    ELSE InsertionOrder(IF Head(names) \in Range(order) THEN order ELSE Append(order, Head(names)),
                        Tail(names))

\* for cmdr in cmdr_names: for card_name in deck_card_names: counts[cmdr][card_name] += 1
RECURSIVE CountCards(_, _, _)
CountCards(counts, names, cards) ==
    IF names = <<>> \/ cards = {} THEN counts
    ELSE CountCards(Put(counts, Head(names), Bump(Get(counts, Head(names), EmptyDict), cards)),
                    Tail(names), cards)

\* for cmdr in cmdr_names: for card_name in deck_card_names:
\*     card_commander_counts[card_name][slugify(cmdr)] += 1
RECURSIVE CountCommanders(_, _, _)
CountCommanders(counts, names, cards) ==
    IF names = <<>> THEN counts
    ELSE LET cmdr_id == slugify(Head(names))
             next == [c \in DOMAIN counts \cup cards |->
                        IF c \in cards THEN Bump(Get(counts, c, EmptyDict), {cmdr_id})
                                       ELSE counts[c]]
         IN  CountCommanders(next, Tail(names), cards)

DeckInfo(deck, index) ==
    [url |-> index, created_dt |-> parse_dt(deck.createdAtUtc)]

\* the counter bumped once per mainboard entry instead of once per name
RECURSIVE BumpPerEntry(_, _)
BumpPerEntry(counts, entries) ==
    IF entries = <<>> THEN counts
    ELSE BumpPerEntry(Bump(counts, {CardName(Head(entries))}), Tail(entries))

CountGlobalPerEntry(counts, deck) == BumpPerEntry(counts, deck.mainboard)

\* for card_name in deck_card_names: global_card_counts[card_name] += 1
CountGlobal(counts, deck) == Bump(counts, DeckCardNames(deck))

\* The orders in which a Python set of these names may be iterated.
Orderings(names) ==
    { o \in [1..Cardinality(names) -> names] : \A i, j \in DOMAIN o : i # j => o[i] # o[j] }

\* One iteration of "for fp in deck_files" on a deck that reaches line 137.
Aggregate(deck, index) ==
    LET cmdr_names == CmdrNames(deck)
        deck_card_names == DeckCardNames(deck)
        deck_info == DeckInfo(deck, index)
        is_pair == Len(cmdr_names) >= 2
        first == IF is_pair THEN cmdr_names[1] ELSE <<>>
        second == IF is_pair THEN cmdr_names[2] ELSE <<>>
        pair_key == make_pair_id(first, second)
        swap == StrGreater(slugify(first), slugify(second))
        n1 == IF swap THEN second ELSE first
        n2 == IF swap THEN first ELSE second
    IN  /\ total_decks' = total_decks + 1
        /\ commander_card_info' = StoreCards(commander_card_info, deck.commanders)
        /\ all_card_info' = StoreCards(StoreCards(all_card_info, deck.mainboard), deck.commanders)
        /\ commander_decks' = AppendDeck(commander_decks, cmdr_names, deck_info)
        /\ cmdr_order' = InsertionOrder(cmdr_order, cmdr_names)
        /\ commander_card_counts' = CountCards(commander_card_counts, cmdr_names, deck_card_names)
        /\ card_commander_counts' = CountCommanders(card_commander_counts, cmdr_names, deck_card_names)
        /\ IF is_pair
           THEN /\ pair_names' = Put(pair_names, pair_key, <<n1, n2>>)
                /\ pair_order' = InsertionOrder(pair_order, <<pair_key>>)
                /\ pair_decks' = Put(pair_decks, pair_key,
                                     Append(Get(pair_decks, pair_key, <<>>), deck_info))
                /\ commander_partners' =
                       LET p1 == Put(commander_partners, n1, Get(commander_partners, n1, {}) \cup {n2})
                       IN  Put(p1, n2, Get(p1, n2, {}) \cup {n1})
                /\ pair_card_counts' = CountCards(pair_card_counts, <<pair_key>>, deck_card_names)
           ELSE UNCHANGED <<pair_names, pair_order, pair_decks, commander_partners,
                            pair_card_counts>>
        /\ global_card_counts' = CountGlobal(global_card_counts, deck)
        \* new keys enter global_card_counts in the set's iteration order
        /\ \E new \in Orderings(deck_card_names \ DOMAIN global_card_counts) :
               card_order' = card_order \o new

\* a skip that tests only for the missing key
SkippedWithoutKey(deck) == ~deck.parses \/ ~deck.has_commanders

\* if not commanders: continue   (also after a file that failed to parse)
Skipped(deck) == ~deck.parses \/ ~deck.has_commanders \/ deck.commanders = <<>>

\* The body of "for fp in deck_files" for the next file.
ProcessDeck(deck) ==
    /\ pc = "decks"
    /\ deck_files' = Append(deck_files, deck)
    /\ IF Skipped(deck)
       THEN UNCHANGED aggregates
       ELSE Aggregate(deck, Len(deck_files) + 1)
    /\ UNCHANGED <<banlist_raw, pc, error, outputs>>

\* ------------------------------------------------------------------ statistics

\* Percentages are held in tenths of a percent: 667 is 66.7.
\* The nearest integer to num/den, ties to even (den > 0).  Python's round(x, 1) rounds
\* the double x correctly; a quotient count/n*100 is a tie only when n is a multiple of 16.
RoundDown(num, den) == num \div den

RoundHalfEven(num, den) ==
    LET q == num \div den
        r == num % den
    IN  IF 2 * r > den THEN q + 1
        ELSE IF 2 * r < den THEN q
        ELSE IF q % 2 = 0 THEN q ELSE q + 1

\* round(num / den, 1), in tenths
round1(num, den) == RoundHalfEven(10 * num, den)

\* round(count / n_decks * 100, 1) if n_decks > 0 else 0
Pct(count, n_decks) == IF n_decks > 0 THEN round1(count * 100, n_decks) ELSE 0

\* round(inclusion_pct - global_pct, 1), both operands already in tenths
Synergy(inclusion_pct, global_pct) == round1(inclusion_pct - global_pct, 10)

\* list.sort(key=lambda x: -keys[x]): stable, descending.  keys[i] is the key of seq[i].
SortDesc(seq, keys) ==
    LET pos(i) == 1 + Cardinality({ j \in 1..Len(seq) :
                        keys[j] > keys[i] \/ (keys[j] = keys[i] /\ j < i) })
    IN  [k \in 1..Len(seq) |-> seq[CHOOSE i \in 1..Len(seq) : pos(i) = k]]

Categories == {"creatures", "instants", "sorceries", "artifacts", "enchantments",
               "planeswalkers", "lands"}

\* top_cards[cat][:50]
TopN == 50

CardInfo(card_name) == Get(all_card_info, card_name, EmptyCard)

TopCardEntry(card_name, count, n_decks) ==
    LET card == CardInfo(card_name)
        inclusion_pct == Pct(count, n_decks)
        global_pct == Pct(Get(global_card_counts, card_name, 0), total_decks)
    IN  [name |-> card_name, slug |-> slugify(card_name), scryfall_id |-> card.scryfall_id,
         image_uri |-> scryfall_image(card.scryfall_id), inclusion_pct |-> inclusion_pct,
         deck_count |-> count, synergy |-> Synergy(inclusion_pct, global_pct)]

\* the cards build_top_cards does not drop as "other"
Ranked(card_counts) ==
    { c \in DOMAIN card_counts : classify_card(CardInfo(c).type_line) # "other" }

\* The 50 best of a category (all of them when there are no more than 50; the list's
\* order, which follows the iteration order of a set among equals, is not modelled).
Truncate(entries) ==
    IF Cardinality(entries) <= TopN THEN entries
    ELSE CHOOSE T \in SUBSET entries :
            /\ Cardinality(T) = TopN
            /\ \A t \in T, u \in entries \ T : t.inclusion_pct >= u.inclusion_pct

build_top_cards(card_counts, n_decks) ==
    [cat \in Categories |->
        Truncate({ TopCardEntry(c, card_counts[c], n_decks) :
                     c \in { r \in Ranked(card_counts) :
                               classify_card(CardInfo(r).type_line) = cat } })]

\* build_top_cards raises when scryfall_image does
TopCardsRaise(card_counts) ==
    \E c \in Ranked(card_counts) : scryfall_image(CardInfo(c).scryfall_id) = IndexErrorRaised

\* ------------------------------------------------------------------ commanders.json

\* d["_created_dt"] >= since raises TypeError when the datetime carries no offset
WindowRaises(decks) ==
    \E i \in 1..Len(decks) : ~decks[i].created_dt.none /\ ~decks[i].created_dt.aware

\* sum(1 for d in decks if d["_created_dt"] and d["_created_dt"] >= since)
CountSince(decks, since) ==
    Cardinality({ i \in 1..Len(decks) :
                    ~decks[i].created_dt.none /\ decks[i].created_dt.day >= since })

BannedCommanderNames == { c.name : c \in Range(banlist_raw.banned_as_commander) }
BannedDeckNames == { c.name : c \in Range(banlist_raw.banned_in_deck) }

CommanderCard(name) == Get(commander_card_info, name, EmptyCard)

PartnerEntry(cmdr_name, pname) ==
    [name |-> pname, id |-> slugify(pname),
     image_uri |-> scryfall_image(CommanderCard(pname).scryfall_id),
     deck_count |-> Len(Get(pair_decks, make_pair_id(cmdr_name, pname), <<>>))]

\* The partners list (its order, by -deck_count with ties in set order, is not modelled).
Partners(cmdr_name) ==
    { PartnerEntry(cmdr_name, pname) : pname \in Get(commander_partners, cmdr_name, {}) }

CmdrData(cmdr_name) ==
    LET card == CommanderCard(cmdr_name)
        decks == commander_decks[cmdr_name]
        is_banned_cmdr == cmdr_name \in BannedCommanderNames
        is_banned_deck == cmdr_name \in BannedDeckNames
    IN  [id |-> slugify(cmdr_name), name |-> cmdr_name, scryfall_id |-> card.scryfall_id,
         image_uri |-> scryfall_image(card.scryfall_id), type_line |-> card.type_line,
         deck_count |-> Len(decks),
         deck_count_90d |-> CountSince(decks, D90),
         deck_count_30d |-> CountSince(decks, D30),
         is_banned |-> is_banned_cmdr \/ is_banned_deck,
         banned_type |-> IF is_banned_cmdr THEN "commander"
                         ELSE IF is_banned_deck THEN "deck" ELSE "None",
         has_partners |-> cmdr_name \in DOMAIN commander_partners,
         partners |-> Partners(cmdr_name)]

\* The exception one iteration of the commanders loop raises, "" if none: the window
\* counts come first, then the partners' images, then the commander's own.
CmdrRaises(cmdr_name) ==
    IF WindowRaises(commander_decks[cmdr_name]) THEN "TypeError"
    ELSE IF \/ \E p \in Partners(cmdr_name) : p.image_uri = IndexErrorRaised
            \/ scryfall_image(CommanderCard(cmdr_name).scryfall_id) = IndexErrorRaised
         THEN "IndexError"
    ELSE ""

\* the first exception raised while iterating names in order, "" if none
RECURSIVE FirstRaise(_)
FirstRaise(names) ==
    IF names = <<>> THEN ""
    ELSE IF CmdrRaises(Head(names)) # "" THEN CmdrRaises(Head(names))
    ELSE FirstRaise(Tail(names))

\* for each record in order: by_id[record.id] = record
RECURSIVE IndexById(_, _)
IndexById(by_id, records) ==
    IF records = <<>> THEN by_id
    ELSE IndexById(Put(by_id, Head(records).id, Head(records)), Tail(records))

Abort(exc) ==
    /\ pc' = "aborted"
    /\ error' = exc

\* Lines 207-256: commanders_list and cmdr_by_id.
BuildCommanders ==
    /\ pc = "decks"
    /\ LET exc == FirstRaise(cmdr_order)
           unsorted == [i \in 1..Len(cmdr_order) |-> CmdrData(cmdr_order[i])]
       IN  IF exc # ""
           THEN Abort(exc) /\ UNCHANGED out
           ELSE /\ pc' = "details"
                /\ out' = [out EXCEPT
                      !.commanders_list =
                          SortDesc(unsorted, [i \in 1..Len(unsorted) |-> unsorted[i].deck_count]),
                      !.cmdr_by_id = IndexById(EmptyDict, unsorted)]
                /\ UNCHANGED error
    /\ UNCHANGED <<deck_files, banlist_raw, aggregates, written, validated, corrupt>>

\* ------------------------------------------------------------------ detail files

File(path, content) == [path |-> path, content |-> content]

CommanderPath(id) == <<"commanders/">> \o id \o <<".json">>
CardPath(slug) == <<"cards/">> \o slug \o <<".json">>

\* The position of the first item of a loop whose iteration raises, Len + 1 if none.
FirstRaising(raises) ==
    IF \E i \in DOMAIN raises : raises[i]
    THEN CHOOSE i \in DOMAIN raises : raises[i] /\ \A j \in 1..(i - 1) : ~raises[j]
    ELSE Len(raises) + 1

\* decks_clean: the deck_info records without their "_" keys (order by updated_at not modelled)
DecksClean(decks) == { [url |-> decks[i].url] : i \in 1..Len(decks) }

CardCounts(counts, key) == Get(counts, key, EmptyDict)

CommanderDetail(cmdr) ==
    File(CommanderPath(cmdr.id),
         [kind |-> "commander", subject |-> cmdr.name, deck_count |-> cmdr.deck_count,
          top_cards |-> build_top_cards(CardCounts(commander_card_counts, cmdr.name),
                                        cmdr.deck_count),
          decks |-> DecksClean(commander_decks[cmdr.name])])

PairImagesRaise(pair_key) ==
    \E n \in Range(pair_names[pair_key]) :
        scryfall_image(CommanderCard(n).scryfall_id) = IndexErrorRaised

PairDetail(pair_key) ==
    File(CommanderPath(pair_key),
         [kind |-> "pair", subject |-> pair_key, deck_count |-> Len(pair_decks[pair_key]),
          top_cards |-> build_top_cards(CardCounts(pair_card_counts, pair_key),
                                        Len(pair_decks[pair_key])),
          decks |-> DecksClean(pair_decks[pair_key])])

\* Lines 258-360: one detail file per commander, then one per pair with a deck.
WriteDetails ==
    /\ pc = "details"
    /\ LET cmdrs == out.commanders_list
           cmdr_raises == [i \in 1..Len(cmdrs) |->
                             TopCardsRaise(CardCounts(commander_card_counts, cmdrs[i].name))]
           cmdr_stop == FirstRaising(cmdr_raises)
           cmdr_files == [i \in 1..(cmdr_stop - 1) |-> CommanderDetail(cmdrs[i])]
           pairs == SelectSeq(pair_order, LAMBDA k : Len(pair_decks[k]) # 0)
           pair_raises == [i \in 1..Len(pairs) |->
                             \/ TopCardsRaise(CardCounts(pair_card_counts, pairs[i]))
                             \/ PairImagesRaise(pairs[i])]
           pair_stop == FirstRaising(pair_raises)
           pair_files == [i \in 1..(pair_stop - 1) |-> PairDetail(pairs[i])]
       IN  IF cmdr_stop <= Len(cmdrs)
           THEN /\ Abort("IndexError")
                /\ written' = written \o cmdr_files
                /\ UNCHANGED out
           ELSE IF pair_stop <= Len(pairs)
           THEN /\ Abort("IndexError")
                /\ written' = written \o cmdr_files \o pair_files
                /\ UNCHANGED out
           ELSE /\ pc' = "cards"
                /\ written' = written \o cmdr_files \o pair_files
                /\ out' = [out EXCEPT !.pair_count = Len(pairs)]
                /\ UNCHANGED error
    /\ UNCHANGED <<deck_files, banlist_raw, aggregates, validated, corrupt>>

\* ------------------------------------------------------------------ cards

\* if count >= 3
MinCardPageDecks == 3

CardEntry(card_name) ==
    LET card == CardInfo(card_name)
        count == global_card_counts[card_name]
    IN  [name |-> card_name, slug |-> slugify(card_name), scryfall_id |-> card.scryfall_id,
         image_uri |-> scryfall_image(card.scryfall_id), type_line |-> card.type_line,
         total_decks |-> count, total_pct |-> Pct(count, total_decks)]

\* card_cmdrs of one card: one record per commander id that cmdr_by_id knows
\* (sorted by -deck_count and cut to 50; the order is not modelled)
CardCommanders(card_name) ==
    LET counts == CardCounts(card_commander_counts, card_name)
        total_pct == Pct(global_card_counts[card_name], total_decks)
        all == { LET cmdr_data == out.cmdr_by_id[cmdr_id]
                     inclusion_pct == Pct(counts[cmdr_id], cmdr_data.deck_count)
                 IN  [name |-> cmdr_data.name, id |-> cmdr_id,
                      image_uri |-> cmdr_data.image_uri, inclusion_pct |-> inclusion_pct,
                      synergy |-> Synergy(inclusion_pct, total_pct),
                      deck_count |-> counts[cmdr_id]] :
                 cmdr_id \in DOMAIN counts \cap DOMAIN out.cmdr_by_id }
    IN  IF Cardinality(all) <= TopN THEN all
        ELSE CHOOSE T \in SUBSET all :
                /\ Cardinality(T) = TopN
                /\ \A t \in T, u \in all \ T : t.deck_count >= u.deck_count

HasCardPageAbove(card_name) == global_card_counts[card_name] > MinCardPageDecks

HasCardPage(card_name) == global_card_counts[card_name] >= MinCardPageDecks

CardDetail(card_name) ==
    File(CardPath(slugify(card_name)),
         [kind |-> "card", subject |-> card_name,
          deck_count |-> global_card_counts[card_name],
          entry |-> CardEntry(card_name), commanders |-> CardCommanders(card_name)])

\* Lines 362-416: cards_list, and one detail file per card in at least three decks.
BuildCards ==
    /\ pc = "cards"
    /\ LET raises == [i \in 1..Len(card_order) |->
                        scryfall_image(CardInfo(card_order[i]).scryfall_id) = IndexErrorRaised]
           stop == FirstRaising(raises)
           done == SubSeq(card_order, 1, stop - 1)
           pages == SelectSeq(done, HasCardPage)
           files == [i \in 1..Len(pages) |-> CardDetail(pages[i])]
           unsorted == [i \in 1..Len(done) |-> CardEntry(done[i])]
       IN  /\ written' = written \o files
           /\ IF stop <= Len(card_order)
              THEN Abort("IndexError") /\ UNCHANGED out
              ELSE /\ pc' = "banlist"
                   /\ out' = [out EXCEPT
                         !.cards_list =
                             SortDesc(unsorted,
                                      [i \in 1..Len(unsorted) |-> unsorted[i].total_decks]),
                         !.card_pages_count = Len(pages)]
                   /\ UNCHANGED error
    /\ UNCHANGED <<deck_files, banlist_raw, aggregates, validated, corrupt>>

\* ------------------------------------------------------------------ banlist.json

\* An entry of the ban list: scryfall_id is "" when the entry has none.
Banned(name, sid) == [name |-> name, scryfall_id |-> sid]

\* The ban list of the model: an entry with its own art id, one without that names a
\* card the decks may hold, and one without that no deck holds.
TheBanlist ==
    [banned_as_commander |-> <<Banned(Korvold, <<"9","9","k">>), Banned(Griselbrand, <<>>)>>,
     banned_in_deck |-> <<Banned(SolRing, <<>>)>>]

\* sid = c.get("scryfall_id", ""), replaced by the corpus card's when empty
BanlistSid(c) ==
    IF c.scryfall_id = <<>> /\ c.name \in DOMAIN all_card_info
    THEN all_card_info[c.name].scryfall_id
    ELSE c.scryfall_id

BanlistEntry(c) ==
    [name |-> c.name, scryfall_id |-> c.scryfall_id,
     image_uri |-> scryfall_image(BanlistSid(c))]

\* Lines 418-429.
BuildBanlist ==
    /\ pc = "banlist"
    /\ LET annotate(list) == [i \in 1..Len(list) |-> BanlistEntry(list[i])]
           as_commander == annotate(banlist_raw.banned_as_commander)
           in_deck == annotate(banlist_raw.banned_in_deck)
       IN  IF \E e \in Range(as_commander \o in_deck) : e.image_uri = IndexErrorRaised
           THEN Abort("IndexError") /\ UNCHANGED out
           ELSE /\ pc' = "write"
                /\ out' = [out EXCEPT !.banlist_out =
                             [banned_as_commander |-> as_commander, banned_in_deck |-> in_deck]]
                /\ UNCHANGED error
    /\ UNCHANGED <<deck_files, banlist_raw, aggregates, written, validated, corrupt>>

\* ------------------------------------------------------------------ top-level files

\* top_recent[:20]
TopRecent == 20

\* commanders_list[:500], cards_list[:500]
SearchLimit == 500

Min(a, b) == IF a < b THEN a ELSE b

\* The commanders with a deck created in the last 180 days, most first.
TopRecentList ==
    LET cmdrs == out.commanders_list
        recent(cmdr) == CountSince(commander_decks[cmdr.name], D180)
        some == SelectSeq(cmdrs, LAMBDA cmdr : recent(cmdr) > 0)
        entries == [i \in 1..Len(some) |->
                      [name |-> some[i].name, deck_count |-> some[i].deck_count,
                       deck_count_180d |-> recent(some[i])]]
        sorted == SortDesc(entries, [i \in 1..Len(entries) |-> entries[i].deck_count_180d])
    IN  SubSeq(sorted, 1, Min(TopRecent, Len(sorted)))

Meta ==
    [total_decks |-> total_decks,
     total_commanders |-> Len(out.commanders_list),
     total_unique_cards |-> Len(out.cards_list),
     total_pairs |-> out.pair_count,
     total_card_pages |-> out.card_pages_count,
     top_20_recent |-> TopRecentList]

SearchIndex ==
    LET cmdrs == SubSeq(out.commanders_list, 1, Min(SearchLimit, Len(out.commanders_list)))
        cards == SubSeq(out.cards_list, 1, Min(SearchLimit, Len(out.cards_list)))
    IN  [i \in 1..Len(cmdrs) |->
            [n |-> cmdrs[i].name, id |-> cmdrs[i].id, t |-> "c",
             d |-> cmdrs[i].deck_count, img |-> cmdrs[i].image_uri]]
        \o [i \in 1..Len(cards) |->
            [n |-> cards[i].name, id |-> cards[i].slug, t |-> "k",
             d |-> cards[i].total_decks, img |-> cards[i].image_uri]]

TopLevel(name, list) == File(<<name>>, [kind |-> name, list |-> list])

\* Lines 431-499: meta, then the five top-level files.
WriteOutputs ==
    /\ pc = "write"
    /\ pc' = "validate"
    /\ out' = [out EXCEPT !.meta = Meta]
    /\ written' = written \o
          << TopLevel("commanders.json", out.commanders_list),
             TopLevel("cards.json", out.cards_list),
             TopLevel("banlist.json", <<out.banlist_out>>),
             TopLevel("meta.json", <<Meta>>),
             TopLevel("search-index.json", SearchIndex) >>
    /\ UNCHANGED <<deck_files, banlist_raw, error, aggregates, validated, corrupt>>

\* ------------------------------------------------------------------ validation

\* for name in [...]: json.load(f)
ValidatedNames == << <<"commanders.json">>, <<"cards.json">>, <<"banlist.json">>, <<"meta.json">> >>

\* Lines 501-506: the run ends here, reporting success unless a re-parse raised.
Validate ==
    /\ pc = "validate"
    /\ LET raises == [i \in 1..Len(ValidatedNames) |-> ValidatedNames[i] \in corrupt]
           stop == FirstRaising(raises)
       IN  /\ validated' = Range(SubSeq(ValidatedNames, 1, Min(stop, Len(ValidatedNames))))
           /\ IF stop <= Len(ValidatedNames)
              THEN Abort("JSONDecodeError")
              ELSE pc' = "done" /\ UNCHANGED error
    /\ UNCHANGED <<deck_files, banlist_raw, aggregates, out, written, corrupt>>

\* The environment: the content of one written file is damaged on disk (a short write,
\* a concurrent writer) before the validation reads it.
DamageFile ==
    /\ pc = "validate"
    /\ corrupt = {}
    /\ \E f \in Range(written) : corrupt' = {f.path}
    /\ UNCHANGED <<deck_files, banlist_raw, pc, error, aggregates, out, written, validated>>

\* ------------------------------------------------------------------ specifications

NoOutput ==
    [commanders_list |-> <<>>, cmdr_by_id |-> EmptyDict, pair_count |-> 0,
     cards_list |-> <<>>, card_pages_count |-> 0,
     banlist_out |-> [banned_as_commander |-> <<>>, banned_in_deck |-> <<>>],
     meta |-> [total_decks |-> 0, total_commanders |-> 0, total_unique_cards |-> 0,
               total_pairs |-> 0, total_card_pages |-> 0, top_20_recent |-> <<>>]]

Init ==
    /\ deck_files = <<>>
    /\ banlist_raw = TheBanlist
    /\ pc = "decks"
    /\ error = ""
    /\ total_decks = 0
    /\ commander_decks = EmptyDict
    /\ cmdr_order = <<>>
    /\ commander_card_info = EmptyDict
    /\ commander_card_counts = EmptyDict
    /\ global_card_counts = EmptyDict
    /\ card_order = <<>>
    /\ all_card_info = EmptyDict
    /\ pair_decks = EmptyDict
    /\ pair_names = EmptyDict
    /\ pair_order = <<>>
    /\ pair_card_counts = EmptyDict
    /\ commander_partners = EmptyDict
    /\ card_commander_counts = EmptyDict
    /\ out = NoOutput
    /\ written = <<>>
    /\ validated = {}
    /\ corrupt = {}

Finish == BuildCommanders \/ WriteDetails \/ BuildCards \/ BuildBanlist \/ WriteOutputs \/ Validate

\* how many deck files the source directory holds at most
MaxDecks == 3

\* Deck files for the aggregation: no usable commanders (two ways), one commander,
\* a pair in both listing orders, a pair member under a second display name with the
\* same slug, two entries that resolve to one commander, three commanders, and
\* mainboards that hold one card or name one card twice.
AtraxaTwice ==
    Deck(<<Entry(Atraxa, EmptyCard), Entry(AltKey, Card(<<Atraxa>>, <<"z","9">>, CreatureLine))>>,
         <<SolRingEntry, Entry(AltKey, Card(<<SolRing>>, <<"q","7">>, <<>>))>>, RecentZ)

CorpusDecks ==
    { NoCommandersKey,
      Deck(<<>>, <<SolRingEntry>>, RecentZ),
      Deck(<<Cmdr(Atraxa)>>, <<SolRingEntry>>, RecentZ),
      Deck(<<Cmdr(Thrasios), Cmdr(Tymna)>>, <<SolRingEntry>>, RecentZ),
      Deck(<<Cmdr(Tymna), Cmdr(Thrasios)>>, <<SolRingEntry>>, RecentZ),
      Deck(<<Cmdr(TymnaDfc), Cmdr(Thrasios)>>, <<OptEntry>>, RecentZ),
      AtraxaTwice,
      Deck(<<Cmdr(Atraxa), Cmdr(Thrasios), Cmdr(Tymna)>>, <<SolRingEntry>>, RecentZ) }

LoadDeck == Len(deck_files) < MaxDecks /\ \E deck \in CorpusDecks : ProcessDeck(deck)

Next == LoadDeck \/ Finish

Spec == Init /\ [][Next]_vars

\* how many deck files the corpus of the statistics holds at most
MaxStatDecks == 4

\* Deck files for the statistics: the three decks of the worked example, a second Korvold
\* deck that holds Sol Ring, and a deck with two commanders.
StatDecks ==
    { Deck(<<Cmdr(Atraxa)>>, <<SolRingEntry, OptEntry>>, RecentZ),
      Deck(<<Cmdr(Atraxa)>>, <<SolRingEntry>>, RecentZ),
      Deck(<<Cmdr(Korvold)>>, <<>>, RecentZ),
      Deck(<<Cmdr(Korvold)>>, <<SolRingEntry>>, RecentZ),
      Deck(<<Cmdr(Thrasios), Cmdr(Tymna)>>, <<SolRingEntry, OptEntry>>, RecentZ) }

LoadStatDeck == Len(deck_files) < MaxStatDecks /\ \E deck \in StatDecks : ProcessDeck(deck)

NextStats == LoadStatDeck \/ Finish

SpecStats == Init /\ [][NextStats]_vars

\* Deck files that differ in their creation timestamp: inside each window, on a window's
\* first day, older than all, missing, unparseable, and ISO text without an offset.
Timestamps ==
    { Created("iso", TRUE, NOW - 10), Created("iso", TRUE, D30), Created("iso", TRUE, NOW - 60),
      Created("iso", TRUE, NOW - 120), Created("iso", TRUE, NOW - 200),
      Created("missing", FALSE, 0), Created("garbage", FALSE, 0),
      Created("iso", FALSE, NOW - 10) }

TimedDecks ==
    { Deck(<<Cmdr(Atraxa)>>, <<SolRingEntry>>, t) : t \in Timestamps }
    \cup { Deck(<<Cmdr(Korvold)>>, <<>>, Created("iso", TRUE, NOW - 60)),
           Deck(<<Cmdr(Korvold)>>, <<>>, Created("garbage", FALSE, 0)) }

LoadTimedDeck == Len(deck_files) < MaxDecks /\ \E deck \in TimedDecks : ProcessDeck(deck)

NextTimed == LoadTimedDeck \/ Finish

SpecTimed == Init /\ [][NextTimed]_vars

\* Deck files that differ in their cards' art ids (absent, one character, well formed),
\* and a file that does not parse, run in an environment that may damage one written file before the validation.
ShortIdCmdr == Entry(Korvold, Card(<<Korvold>>, <<"k">>, CreatureLine))
NoIdSolRing == Entry(SolRing, Card(<<SolRing>>, <<>>, ArtifactLine))
ShortIdOpt  == Entry(Opt, Card(<<Opt>>, <<"e">>, InstantLine))

ArtDecks ==
    { BrokenFile,
      Deck(<<Cmdr(Atraxa)>>, <<SolRingEntry>>, RecentZ),
      Deck(<<Cmdr(Atraxa)>>, <<NoIdSolRing>>, RecentZ),
      Deck(<<Cmdr(Atraxa)>>, <<OptEntry>>, RecentZ),
      Deck(<<Cmdr(Atraxa)>>, <<ShortIdOpt>>, RecentZ),
      Deck(<<ShortIdCmdr>>, <<>>, RecentZ),
      Deck(<<Cmdr(Thrasios), Cmdr(Tymna)>>, <<SolRingEntry>>, RecentZ),
      Deck(<<Cmdr(Thrasios), ShortIdCmdr>>, <<>>, RecentZ) }

LoadArtDeck == Len(deck_files) < MaxDecks /\ \E deck \in ArtDecks : ProcessDeck(deck)

NextFaulty == LoadArtDeck \/ Finish \/ DamageFile

SpecFaulty == Init /\ [][NextFaulty]_vars

\* Deck files in which two display names of one card, "Tymna" and "Tymna // X", share the
\* slug "tymna": each alone and each paired with Thrasios, all holding Sol Ring, and a deck
\* with two entries that resolve to one commander.
CollidingDecks ==
    { Deck(<<Cmdr(Tymna)>>, <<SolRingEntry>>, RecentZ),
      Deck(<<Cmdr(TymnaDfc)>>, <<SolRingEntry>>, RecentZ),
      Deck(<<Cmdr(Thrasios), Cmdr(Tymna)>>, <<SolRingEntry>>, RecentZ),
      Deck(<<Cmdr(TymnaDfc), Cmdr(Thrasios)>>, <<SolRingEntry, OptEntry>>, RecentZ),
      AtraxaTwice }

LoadCollidingDeck == Len(deck_files) < MaxDecks /\ \E deck \in CollidingDecks : ProcessDeck(deck)

NextColliding == LoadCollidingDeck \/ Finish

SpecColliding == Init /\ [][NextColliding]_vars

\* ------------------------------------------------------------------ properties

\* the positions in deck_files of the decks that name at least one commander
QualifyingDecks ==
    { i \in 1..Len(deck_files) :
        /\ deck_files[i].parses
        /\ deck_files[i].has_commanders
        /\ deck_files[i].commanders # <<>> }

\* the name an entry of a deck document resolves to, read off the document
NamedBy(e) == IF e.card.name = <<>> THEN e.cname ELSE e.card.name[1]

CommandersOf(i) == { NamedBy(deck_files[i].commanders[k]) : k \in 1..Len(deck_files[i].commanders) }

MainboardOf(i) == { NamedBy(deck_files[i].mainboard[k]) : k \in 1..Len(deck_files[i].mainboard) }

CommanderUniverse == {Atraxa, Korvold, Thrasios, Tymna, TymnaDfc}
CardUniverse == {SolRing, Opt}

CommandersBuilt == pc \in {"details", "cards", "banlist", "write", "validate", "done"}
CardsBuilt == pc \in {"banlist", "write", "validate", "done"}
MetaBuilt == pc \in {"validate", "done"}

\* C1: the deck_count reported for every commander is the number of distinct qualifying
\* decks that name it as a commander, a deck with two entries resolving to it counting once.
C1_DeckCountIsDistinctDecks ==
    CommandersBuilt =>
        \A i \in 1..Len(out.commanders_list) :
            out.commanders_list[i].deck_count =
                Cardinality({ d \in QualifyingDecks : out.commanders_list[i].name \in CommandersOf(d) })

\* the decks whose first two commanders are A and B, in either order
PairDecksOf(A, B) ==
    { d \in QualifyingDecks :
        /\ Len(deck_files[d].commanders) >= 2
        /\ {NamedBy(deck_files[d].commanders[1]), NamedBy(deck_files[d].commanders[2])} = {A, B} }

\* the decks whose first two commanders map to the pair id of A and B
PairIdDecksOf(A, B) ==
    { d \in QualifyingDecks :
        /\ Len(deck_files[d].commanders) >= 2
        /\ make_pair_id(NamedBy(deck_files[d].commanders[1]), NamedBy(deck_files[d].commanders[2]))
             \in {make_pair_id(A, B), make_pair_id(B, A)} }

PairDeckCount(A, B) == Len(Get(pair_decks, make_pair_id(A, B), <<>>))

\* C2 (as stated): make_pair_id is symmetric, and the pair record of A and B counts
\* exactly the decks whose first two commanders are A and B in either order.
C2_PairCountsItsOwnDecks ==
    \A A, B \in CommanderUniverse :
        /\ make_pair_id(A, B) = make_pair_id(B, A)
        /\ PairDecksOf(A, B) # {} => PairDeckCount(A, B) = Cardinality(PairDecksOf(A, B))

\* C2 (amended): make_pair_id is symmetric, every deck listing A and B first, in either
\* order, is in the one pair record of A and B, and that record's deck count is the number
\* of decks whose first two commanders map to the same pair id (decks listing another
\* display name with the same slug included).
C2_PairCountsDecksOfItsId ==
    \A A, B \in CommanderUniverse :
        /\ make_pair_id(A, B) = make_pair_id(B, A)
        /\ PairDeckCount(A, B) = PairDeckCount(B, A)
        /\ PairDeckCount(A, B) = Cardinality(PairIdDecksOf(A, B))
        /\ PairDecksOf(A, B) \subseteq
             { Get(pair_decks, make_pair_id(A, B), <<>>)[k].url : k \in 1..PairDeckCount(A, B) }

\* two decks list Thrasios and Tymna in opposite orders and their pair has two decks
C2_Witness ==
    /\ \E d, e \in QualifyingDecks :
          /\ CmdrNames(deck_files[d]) = <<Thrasios, Tymna>>
          /\ CmdrNames(deck_files[e]) = <<Tymna, Thrasios>>
    /\ PairDeckCount(Tymna, Thrasios) = 2

\* C3: the global counter of every card is the number of qualifying decks whose mainboard
\* holds the card, whatever the number of commanders or of entries resolving to the card.
C3_GlobalCountIsDecksHolding ==
    \A c \in CardUniverse :
        Get(global_card_counts, c, 0) = Cardinality({ d \in QualifyingDecks : c \in MainboardOf(d) })

\* a deck naming Sol Ring twice, a deck with two commanders and a deck with three have
\* been counted
C3_Witness ==
    /\ \E d \in QualifyingDecks : deck_files[d] = AtraxaTwice
    /\ \E d \in QualifyingDecks : Len(deck_files[d].commanders) = 2 /\ SolRing \in MainboardOf(d)
    /\ \E d \in QualifyingDecks : Len(deck_files[d].commanders) = 3 /\ SolRing \in MainboardOf(d)
    /\ global_card_counts[SolRing] = 3

\* C4: once a name has an entry in a card-info table, no later deck changes that entry.
C4_FirstRecordIsKept ==
    [][ /\ \A n \in DOMAIN all_card_info : all_card_info'[n] = all_card_info[n]
        /\ \A n \in DOMAIN commander_card_info : commander_card_info'[n] = commander_card_info[n]
      ]_vars

\* C5: taking a deck with no commanders mapping, or an empty one, leaves every aggregate
\* as it was.
C5_NoCommandersChangesNothing ==
    [][ ( /\ Len(deck_files') = Len(deck_files) + 1
          /\ LET deck == deck_files'[Len(deck_files')]
             IN  ~deck.has_commanders \/ deck.commanders = <<>> )
        => UNCHANGED aggregates ]_vars

\* a deck without the key and a deck with an empty mapping were taken after a counted deck
C5_Witness ==
    /\ total_decks = 1
    /\ Len(deck_files) = 3
    /\ deck_files[1].parses /\ deck_files[1].commanders # <<>>
    /\ deck_files[2].parses /\ ~deck_files[2].has_commanders /\ deck_files[2].mainboard # <<>>
    /\ deck_files[3].parses /\ deck_files[3].has_commanders /\ deck_files[3].commanders = <<>>

Abs(x) == IF x < 0 THEN -x ELSE x

\* v, in tenths of a percent, is a nearest tenth to num / den * 100
NearestTenth(v, num, den) == 2 * Abs(v * den - 1000 * num) <= den

Files(kind) == { f \in Range(written) : f.content.kind = kind }

ExampleCorpus ==
    << Deck(<<Cmdr(Atraxa)>>, <<SolRingEntry, OptEntry>>, RecentZ),
       Deck(<<Cmdr(Atraxa)>>, <<SolRingEntry>>, RecentZ),
       Deck(<<Cmdr(Korvold)>>, <<>>, RecentZ) >>

\* the Sol Ring entries of Atraxa's detail file
AtraxaSolRing ==
    { e \in UNION { f.content.top_cards["artifacts"] :
                      f \in { g \in Files("commander") : g.content.subject = Atraxa } } :
        e.name = SolRing }

\* C6: the recency counts of every commander nest, 30d <= 90d <= 180d <= deck_count, a deck
\* with a missing or unparseable timestamp is in deck_count and in no window, and computing
\* the windows never ends the run.
C6_WindowsNestAndNeverAbort ==
    /\ error # "TypeError"
    /\ CommandersBuilt =>
          \A i \in 1..Len(out.commanders_list) :
              LET cmdr == out.commanders_list[i]
                  decks == commander_decks[cmdr.name]
                  dated == { k \in 1..Len(decks) : ~decks[k].created_dt.none }
              IN  /\ cmdr.deck_count_30d <= cmdr.deck_count_90d
                  /\ cmdr.deck_count_90d <= CountSince(decks, D180)
                  /\ CountSince(decks, D180) <= Cardinality(dated)
                  /\ cmdr.deck_count = Len(decks)
    /\ MetaBuilt =>
          \A i \in 1..Len(out.meta.top_20_recent) :
              LET r == out.meta.top_20_recent[i]
              IN  \A k \in 1..Len(out.commanders_list) :
                      out.commanders_list[k].name = r.name =>
                          /\ out.commanders_list[k].deck_count_90d <= r.deck_count_180d
                          /\ r.deck_count_180d <= r.deck_count

\* C7: every emitted inclusion_pct is count / denominator * 100 rounded to one decimal (0
\* for a zero denominator), synergy is inclusion_pct minus the equally rounded global
\* percentage, and the three-deck example gives 100.0, 66.7 and 33.3.
C7_PercentagesAndExample ==
    /\ \A c \in 0..MaxStatDecks : Pct(c, 0) = 0
    /\ \A f \in Files("commander") \cup Files("pair") :
          \A cat \in Categories : \A e \in f.content.top_cards[cat] :
              /\ NearestTenth(e.inclusion_pct, e.deck_count, f.content.deck_count)
              /\ NearestTenth(e.inclusion_pct - e.synergy, global_card_counts[e.name], total_decks)
    /\ \A f \in Files("card") :
          /\ NearestTenth(f.content.entry.total_pct, f.content.deck_count, total_decks)
          /\ \A e \in f.content.commanders :
                /\ NearestTenth(e.inclusion_pct, e.deck_count, out.cmdr_by_id[e.id].deck_count)
                /\ e.synergy = e.inclusion_pct - f.content.entry.total_pct
    /\ (deck_files = ExampleCorpus /\ pc = "done") =>
          /\ total_decks = 3
          /\ \E i \in 1..Len(out.commanders_list) :
                out.commanders_list[i].name = Atraxa /\ out.commanders_list[i].deck_count = 2
          /\ global_card_counts[SolRing] = 2
          /\ AtraxaSolRing # {}
          /\ \A e \in AtraxaSolRing :
                e.inclusion_pct = 1000 /\ e.inclusion_pct - e.synergy = 667 /\ e.synergy = 333

\* the example corpus has been processed to the end and a card page lists a commander
C7_Witness ==
    /\ deck_files = ExampleCorpus
    /\ pc = "done"
    /\ AtraxaSolRing # {}

\* a card detail file lists a commander that holds the card less often than the corpus
C7_CardWitness ==
    \E f \in Files("card") : \E e \in f.content.commanders : e.inclusion_pct > 0 /\ e.synergy < 0

\* C8: a card detail record is emitted exactly for the cards in at least three decks, and
\* total_card_pages is the number of those cards.
C8_CardPagesFromThreeDecks ==
    /\ CardsBuilt =>
          \A c \in DOMAIN global_card_counts :
              (\E f \in Files("card") : f.content.subject = c) <=> global_card_counts[c] >= 3
    /\ MetaBuilt =>
          out.meta.total_card_pages = Cardinality({ c \in DOMAIN global_card_counts :
                                                      global_card_counts[c] >= 3 })

\* Sol Ring is in exactly three decks and has a page, Opt is in exactly two and has none
C8_Witness ==
    /\ pc = "done"
    /\ global_card_counts = (SolRing :> 3) @@ (Opt :> 2)
    /\ { f.content.subject : f \in Files("card") } = {SolRing}
    /\ out.meta.total_card_pages = 1

\* C9: resolving image URLs never ends the run; scryfall_image gives "" for an empty id;
\* a banlist entry without an art id takes the id of the corpus card of its name, and one
\* that matches no corpus card gets an empty URL.
C9_ImagesNeverAbort ==
    /\ error # "IndexError"
    /\ scryfall_image(<<>>) = <<>>
    /\ pc \in {"write", "validate", "done"} =>
          \A e \in Range(out.banlist_out.banned_as_commander \o out.banlist_out.banned_in_deck) :
              e.scryfall_id = <<>> =>
                  IF e.name \in DOMAIN all_card_info
                  THEN e.image_uri = scryfall_image(all_card_info[e.name].scryfall_id)
                  ELSE e.image_uri = <<>>

\* C10: a run that reports success has re-parsed every file it wrote, and none of them
\* fails to parse.
C10_EveryWrittenFileValidated ==
    pc = "done" => \A f \in Range(written) : f.path \in validated /\ f.path \notin corrupt

\* every counter of a commander's, a pair's or the corpus's cards is at most the number of
\* decks of its scope
ScopedCountsBounded ==
    /\ \A cmdr \in DOMAIN commander_card_counts : \A c \in DOMAIN commander_card_counts[cmdr] :
          commander_card_counts[cmdr][c] <= Len(Get(commander_decks, cmdr, <<>>))
    /\ \A k \in DOMAIN pair_card_counts : \A c \in DOMAIN pair_card_counts[k] :
          pair_card_counts[k][c] <= Len(Get(pair_decks, k, <<>>))
    /\ \A c \in DOMAIN global_card_counts : global_card_counts[c] <= total_decks

\* a pair has at most as many decks as each of its two members, in the tables and in the
\* partner lists of commanders.json
PairWithinMembers ==
    /\ \A k \in DOMAIN pair_decks : \A n \in Range(pair_names[k]) :
          Len(pair_decks[k]) <= Len(Get(commander_decks, n, <<>>))
    /\ CommandersBuilt =>
          \A i \in 1..Len(out.commanders_list) : \A p \in out.commanders_list[i].partners :
              p.deck_count <= out.commanders_list[i].deck_count

\* v, in tenths of a percent, lies between 0 and 100
IsPercentage(v) == 0 <= v /\ v <= 1000

\* every inclusion_pct and total_pct written so far lies between 0 and 100
EmittedPercentagesInRange ==
    /\ \A f \in Files("commander") \cup Files("pair") :
          \A cat \in Categories : \A e \in f.content.top_cards[cat] : IsPercentage(e.inclusion_pct)
    /\ \A f \in Files("card") :
          /\ IsPercentage(f.content.entry.total_pct)
          /\ \A e \in f.content.commanders : IsPercentage(e.inclusion_pct)
    /\ \A i \in 1..Len(out.cards_list) : IsPercentage(out.cards_list[i].total_pct)

\* C11: after any collection of decks every counter is bounded by its denominator: a
\* commander's and a pair's card counts by the scope's deck count, a card's global count by
\* total_decks, and a pair's deck count by the deck_count of each of its two members; and
\* every emitted inclusion_pct and total_pct lies between 0 and 100.
C11_CountersBoundedByDenominators ==
    /\ ScopedCountsBounded
    /\ PairWithinMembers
    /\ EmittedPercentagesInRange

====
